---- MODULE Spec2Model ----
(***************************************************************************)
(* The ERC-4626 rescue bot: the single-flight trigger gate, the redeem     *)
(* retry engine with its fee oracle, the event callbacks and the patrol    *)
(* loop, as they are written in the drafts of rescue-bot.js.               *)
(*                                                                         *)
(* The drafts are told apart by `variant`:                                 *)
(*   "rb"  src/rescue-bot.js (its retry loop breaks off at line 265; the   *)
(*         rest of the loop is the one of src/unnamed/part_001:397-420,    *)
(*         the same program with the same function names)                  *)
(*   "p1"  src/unnamed/part_001:1-229                                      *)
(*   "p3"  src/unnamed/part_003 (patrol loop, maxRedeem sizing)            *)
(*   "p5"  src/unnamed/part_005 (event-delta redeem beside the gate)       *)
(*                                                                         *)
(* JavaScript runs one callback at a time, so one action is one run of     *)
(* code between two awaits: the answer of the awaited call is the input    *)
(* of the action and everything up to the next await is its effect.        *)
(*                                                                         *)
(* Units: a gwei amount g is stored as 10*g (INITIAL_GAS_GWEI=0.1 is 1),   *)
(* a wei amount w as w / 10^7 (1 gwei is 100).                             *)
(***************************************************************************)
EXTENDS Integers, Sequences, FiniteSets, TLC

VARIABLES
    env,            \* the required variables that are set in process.env
    variant,        \* which draft runs
    dryRun,         \* DRY_RUN
    maxRetries,     \* MAX_RETRIES
    gasStart,       \* INITIAL_GAS_GWEI
    gasCap,         \* MAX_GAS_GWEI
    hasToken,       \* TOKEN_ADDRESS is set (`underlying` is not null)
    patrolEnabled,  \* ENABLE_PATROL
    retryBaseMs,    \* RETRY_BASE_MS
    rescueRunning,  \* rescueInProgress / rescueRunning
    rescueReason,   \* lastTriggerReason / rescueReason
    runs,           \* the async calls in flight: engine runs and redeemDelta calls
    proc,           \* the process: "load", "running" or "exit1" (process.exit(1))
    mainDone,       \* main() has reached its startup trigger
    patrolPc,       \* where patrolLoop() stands
    lastPatrol,     \* history: the answer to the latest patrol query
    lastCall,       \* history: the reason of the latest trigger call
    lastEnded,      \* history: how the latest finished call ended
    ws              \* the WebSocket side of the drafts that reconnect

config == <<env, variant, dryRun, maxRetries, gasStart, gasCap, hasToken, patrolEnabled,
            retryBaseMs>>
vars == <<env, variant, dryRun, maxRetries, gasStart, gasCap, hasToken, patrolEnabled,
          retryBaseMs, rescueRunning, rescueReason, runs, proc, mainDone, patrolPc,
          lastPatrol, lastCall, lastEnded, ws>>

\* ------------------------------------------------------------- bounds
MaxRetriesBound == 3
MaxDelta == 1

\* ------------------------------------------------------ the environment
\* the variables every draft requires
RequiredEnv == {"RPC_WS", "RPC_HTTP", "PRIVATE_KEY", "OWNER_ADDRESS", "VAULT_ADDRESS"}
Variants == {"rb", "p1", "p3", "p5"}
\* <<INITIAL_GAS_GWEI, MAX_GAS_GWEI>>: 0.1/1.5 (the defaults of rescue-bot.js)
\* and 5/10 (the default start of the other drafts; the cap is reached by the third bid)
GasConfigs == {<<1, 15>>, <<50, 100>>}
\* part_005 is run with the first of them only: its redeemDelta bids 10 gwei
\* and part_003 with 5/10 and with 4.1/10: 4.1 * 1e9 is the double 4099999999.9999995
GasConfigsOf(v) ==
    IF v = "p5" THEN {<<1, 15>>}
    ELSE IF v = "p3" THEN {<<50, 100>>, <<41, 100>>}
    ELSE GasConfigs
\* the default of RETRY_BASE_MS: 15000, 12000 in part_003, 10000 in part_002 and part_004
RetryBaseDefault(v) ==
    CASE v \in {"rb", "p1", "p5"} -> 15000
      [] v = "p3" -> 12000
      [] v \in {"p2", "p4"} -> 10000
\* the drafts with the gate do not reconnect (part_003 is followed while its
\* first connection stands)
NoWatcher == "none"
ShareAmounts == {0, 1000}
AssetAmounts == {0, 500}
NetPrices == {120, 2000}
\* what provider.getFeeData() answers: it throws, or gives each fee or null (0)
FeeAnswers ==
    {[ok |-> FALSE, maxFeePerGas |-> 0, gasPrice |-> 0]} \cup
    [ok : {TRUE}, maxFeePerGas : {0, 2000}, gasPrice : {0, 120}]
\* what provider.getGasPrice() answers: it throws, or gives a price or null (0)
PriceAnswers ==
    {[ok |-> FALSE, price |-> 0]} \cup [ok : {TRUE}, price : {0} \cup NetPrices]
\* the status of a confirmed receipt: ethers v6 gives a JavaScript number
Number(v) == [type |-> "number", val |-> v]
BigIntLit(v) == [type |-> "bigint", val |-> v]
\* the status of a receipt that sent.wait(1) returns: for a receipt of status 0
\* wait() of ethers v6 throws (CALL_EXCEPTION) and returns nothing
ReceiptStatuses == {Number(1)}

Min(a, b) == IF a < b THEN a ELSE b
\* Math.pow(b, e) for a natural exponent
RECURSIVE Pow(_, _)
Pow(b, e) == IF e = 0 THEN 1 ELSE b * Pow(b, e - 1)
RemoveAt(s, i) == SubSeq(s, 1, i - 1) \o SubSeq(s, i + 1, Len(s))

NoSession ==
    [kind |-> "none", outcome |-> "none", reason |-> "none", op |-> "none",
     shares |-> 0, under |-> 0,
     attempt |-> 0, subs |-> 0, sleeps |-> 0, dryLogs |-> 0, okSeen |-> FALSE,
     raised |-> FALSE]

\* ---------------------------------------------------------- pure parts
\* a === b of JavaScript: a number and a bigint are never strictly equal
StrictEquals(a, b) == a.type = b.type /\ a.val = b.val

\* rcpt.status === 1n
StatusIsSuccess(status) == StrictEquals(status, BigIntLit(1))

\* BigInt(Math.floor(gwei * 1e9))
GweiToWei(g) == g * 10

\* the escalation factor of the draft, times 10: 1.6, 1.5, 1.4, 1.5
\* (1.5 in part_002 and part_004)
EscalationFactor(v) ==
    CASE v = "rb" -> 16
      [] v = "p1" -> 15
      [] v = "p3" -> 14
      [] v = "p5" -> 15
      [] v \in {"p2", "p4"} -> 15

\* Math.round(x) of a gwei amount x = n / 1000 given as n: whole gwei, stored * 10
MathRound(n) == ((n + 500) \div 1000) * 10

\* gasGwei = Math.min(gasCap, Math.round(gasGwei * factor))
BumpGas(g, cap, v) == Min(cap, MathRound(g * 10 * EscalationFactor(v)))

NoClamp(price, cap) == price
\* if (gasPrice > cap) gasPrice = cap
ClampToCap(price, cap) == IF price > cap THEN cap ELSE price

\* the first try of the fee oracle: fee.maxFeePerGas, in part_003 fee.gasPrice
FeeField(fee, v) == IF v = "p3" THEN fee.gasPrice ELSE fee.maxFeePerGas

\* the gwei amounts g of the model whose double product g * 1e9 has a fraction
InexactGwei == {41}

\* Math.floor is applied before BigInt(), in every draft but part_003
FloorsProduct(g, v) == v # "p3"

\* BigInt(x) throws a RangeError when the number x is not an integer
BigIntRaises(g, v) == g \in InexactGwei /\ ~FloorsProduct(g, v)

PreferredOnly(fee, gp, preferred, v) == GweiToWei(preferred)
\* what the fee oracle returns once its queries have answered `fee` and `gp`
\* (gp is asked only if fee gave nothing) and BigInt() did not throw
OracleReturn(fee, gp, preferred, v) ==
    IF fee.ok /\ FeeField(fee, v) # 0 THEN FeeField(fee, v)
    ELSE IF gp.ok /\ gp.price # 0 THEN gp.price
    ELSE GweiToWei(preferred)

\* the growth factor of the backoff delay, times 10: Math.pow(1.8, attempt),
\* 1.7 in part_003, 1.6 in part_002 and part_004
GrowthFactor(v) ==
    CASE v \in {"rb", "p1", "p5"} -> 18
      [] v = "p3" -> 17
      [] v \in {"p2", "p4"} -> 16

\* the drafts that write Math.min(60000, Math.floor(...)) around the delay
HasMaxDelay(v) == v \in {"p2", "p4"}

NoDelayCap(num, den, v) == num
\* the delay num / den ms as it is passed to sleep(), times den:
\* Math.min(60000, Math.floor(num / den)) where the draft has a maximum
CapDelay(num, den, v) ==
    IF HasMaxDelay(v) THEN Min(60000, num \div den) * den ELSE num

\* retryBaseMs * Math.pow(growth, attempt), capped where the draft caps it:
\* the delay in ms times 10^attempt
BackoffDelay(v, base, attempt) ==
    CapDelay(base * Pow(GrowthFactor(v), attempt), Pow(10, attempt), v)

\* the safety multiplier of the gas estimate, times 100: Number(est) * 1.20,
\* 1.25 in part_001 and part_005, est * 2n in part_003
SafetyMultiplier(v) ==
    CASE v \in {"rb", "p2", "p4"} -> 120
      [] v \in {"p1", "p5"} -> 125
      [] v = "p3" -> 200

\* the gas limit used when estimateGas fails
FallbackGasLimit(v, kind) ==
    CASE v \in {"rb", "p1", "p2", "p4"} -> 600000
      [] v = "p3" -> 700000
      [] v = "p5" -> IF kind = "delta" THEN 400000 ELSE 500000

\* what httpProvider.estimateGas answers: it throws, or gives an estimate
EstimateAnswers == {[ok |-> FALSE, gas |-> 0], [ok |-> TRUE, gas |-> 100001]}

NoSafetyMargin(v, kind, est) ==
    IF est.ok THEN est.gas ELSE FallbackGasLimit(v, kind)
\* gasLimit = BigInt(Math.floor(Number(est) * 1.20)), in the catch gasLimit = 600000n
GasLimitOf(v, kind, est) ==
    IF est.ok THEN (est.gas * SafetyMultiplier(v)) \div 100
    ELSE FallbackGasLimit(v, kind)

\* the answers not asked for, and no price
NoFee == [ok |-> FALSE, maxFeePerGas |-> -1, gasPrice |-> -1]
NoPrice == [ok |-> FALSE, price |-> -1]
NoQuote == -1

\* -------------------------------------------------- the calls in flight
\* One async call: an engine run started by the gate (kind "rescue"), one
\* redeemDelta call (kind "delta"), or in part_002 and part_004 one call of an
\* event handler (kind "event") or of patrolRescue by main or the patrol loop
\* (kind "patrol"). pc names the await it is suspended at.
\*   reason   the reason the gate admitted (the parameter of rescueOnce in part_003)
\*   shares   the share amount sized (the event's assets for redeemDelta)
\*   under    the underlying-token balance read by rescue-bot.js
\*   op       "redeem", or "withdraw" for repeatedlyTryWithdraw
\*   attempt, gasGwei   the locals of the retry loop
\*   prevGwei the bid of the attempt before (history)
\*   txPrice  tx.gasPrice of the transaction built last
\*   fee, gp, quote   of an engine run, while the transaction is being sent:
\*            what getFeeData() and getGasPrice() answered and what the fee
\*            oracle returned (history)
\*   raised   the fee oracle threw in this call (history)
\*   gasLimit the local gasLimit, from the estimate until tx is built and
\*            handed to wallet.sendTransaction
\*   delay    the delay passed to sleep() after the latest failed attempt,
\*            in ms times 10^attempt
\*   subs, sleeps, dryLogs   calls of wallet.sendTransaction, of sleep, and
\*            [DRY RUN] lines logged (history)
\*   okSeen   a receipt with status 1 was returned to this call (history)
\*   outcome  of a call that has returned to the handler awaiting it
\*            (pc "done"): how it ended
\*   checkFailed  the maxRedeem check of the handler threw (history)
\*   logged   the reason the run has just logged as its trigger, until its
\*            sizing query answers (history)
\*   data     the amount encoded in the calldata of the latest attempt
\*   redeemable  what vault.maxRedeem answered to the handler that sized this
\*            call, NotRead if it answered nothing (history)
\*   carried  the attempt count the session before this one ended with, when
\*            it ended exhausted; kept until the first attempt is priced (history)
\* no redeemable amount was read
NotRead == -1

NewRun(kind, reason, amount) ==
    [kind |-> kind, pc |-> "addr", op |-> "redeem", reason |-> reason,
     shares |-> amount, under |-> 0, attempt |-> 0, gasGwei |-> 0, prevGwei |-> 0,
     txPrice |-> 0, fee |-> NoFee, gp |-> NoPrice,
     quote |-> NoQuote, raised |-> FALSE, gasLimit |-> 0, delay |-> 0,
     subs |-> 0, sleeps |-> 0, dryLogs |-> 0, okSeen |-> FALSE, outcome |-> "none",
     checkFailed |-> FALSE, carried |-> 0, redeemable |-> NotRead, data |-> 0,
     logged |-> "none"]

\* the call has returned or thrown: the async function awaiting it resumes
\* in a later turn
Returned(run, outcome) == [run EXCEPT !.pc = "done", !.outcome = outcome]

Summary(run, outcome) ==
    [kind |-> run.kind, outcome |-> outcome, reason |-> run.reason, op |-> run.op,
     shares |-> run.shares, under |-> run.under, attempt |-> run.attempt, subs |-> run.subs,
     sleeps |-> run.sleeps, dryLogs |-> run.dryLogs, okSeen |-> run.okSeen,
     raised |-> run.raised]

EngineRuns == {i \in 1..Len(runs) : runs[i].kind = "rescue"}
\* the calls that come to the retry loop
LoopKinds == {"rescue", "event", "patrol"}
LoopRuns == {i \in 1..Len(runs) : runs[i].kind \in LoopKinds}
DeltaRuns == {i \in 1..Len(runs) : runs[i].kind = "delta"}
\* the awaits between building the redeem call and its confirmation
AttemptPcs == {"simulate", "estimate", "feeData", "gasPrice", "send", "wait"}

\* ------------------------------------------------------------ the gate
NeverBusy == FALSE
\* if (rescueRunning) / if (rescueInProgress)
Busy == rescueRunning

KeepOldReason(reason) == rescueReason
\* rescueReason = reason, in the branch taken while a run is active
RecordWhileBusy(reason) == reason

StuckOnError(outcome) == outcome = "error"
NeverCleared(outcome) == TRUE
StuckOnEarlyReturn(outcome) == outcome \in {"nothing", "dryrun"}
\* finally { rescueRunning = false } (part_003: the statement after try/catch)
FlagAfterRun(outcome) == FALSE

\* triggerRescue(reason) / triggerRescueAttempt(reason), up to the first await
\* of the engine run it starts
TriggerRescue(reason) ==
    /\ lastCall' = reason
    /\ rescueReason' = IF Busy THEN RecordWhileBusy(reason) ELSE reason
    /\ IF Busy
       THEN UNCHANGED <<rescueRunning, runs, lastEnded>>
       ELSE /\ rescueRunning' = TRUE
            /\ runs' = <<[NewRun("rescue", reason, 0) EXCEPT
                             !.carried = IF lastEnded.outcome = "exhausted"
                                         THEN lastEnded.attempt ELSE 0]>> \o runs
            /\ lastEnded' = NoSession

\* the call in flight i goes on as `run`
Continue(i, run) ==
    /\ runs' = [runs EXCEPT ![i] = run]
    /\ UNCHANGED <<rescueRunning, lastEnded>>

EndRunReplay(i, run, outcome) ==
    IF run.kind = "rescue"
    THEN /\ lastEnded' = Summary(run, outcome)
         /\ IF rescueReason # run.reason
            THEN /\ rescueRunning' = TRUE
                 /\ runs' = <<NewRun("rescue", rescueReason, 0)>> \o RemoveAt(runs, i)
            ELSE /\ rescueRunning' = FALSE
                 /\ runs' = RemoveAt(runs, i)
    ELSE /\ runs' = [runs EXCEPT ![i] = Returned(run, outcome)]
         /\ UNCHANGED <<rescueRunning, lastEnded>>
\* the call in flight i returns or throws; for an engine run the gate's
\* catch and finally run in the same turn
EndRun(i, run, outcome) ==
    IF run.kind = "rescue"
    THEN /\ runs' = RemoveAt(runs, i)
         /\ rescueRunning' = FlagAfterRun(outcome)
         /\ lastEnded' = Summary(run, outcome)
    ELSE /\ runs' = [runs EXCEPT ![i] = Returned(run, outcome)]
         /\ UNCHANGED <<rescueRunning, lastEnded>>

\* ---------------------------------------------------------- the engine
LoopAlways(attempt, n) == attempt <= n
\* while (attempt < maxRetries)
LoopContinues(attempt, n) == attempt < n

\* if (shares === 0n) return / if (redeemable === 0n) return
NothingToRescue(amount) == amount = 0

NeverDry == FALSE
\* if (dryRun)
IsDryRun == dryRun

\* the loop test and, inside the loop, attempt++ up to `await httpProvider.call`
ResizedAmount(run, held) == held
\* encodeFunctionData('redeem', [shares, OWNER_ADDRESS, signer]): the argument
\* of the loop is encoded, whatever the wallet holds by now
RequestAmount(run, held) == IF run.op = "withdraw" THEN run.under ELSE run.shares

EnterLoop(i, run) ==
    IF LoopContinues(run.attempt, maxRetries)
    THEN \E held \in ShareAmounts :
            Continue(i, [run EXCEPT !.attempt = @ + 1, !.pc = "simulate",
                                    !.data = RequestAmount(run, held)])
    ELSE EndRun(i, run, "exhausted")

\* repeatedlyTryRedeem(shares) / attemptRedeemRepeated(shares) / attemptRedeemLoop(shares)
\* is called: it suspends at `await wallet.getAddress()`
StartRedeem(i, run) == Continue(i, [run EXCEPT !.pc = "engAddr", !.op = "redeem"])

\* repeatedlyTryWithdraw(underlyingBalance): called by rescue-bot.js:219, its body is
\* not in the sources; it is taken to be the retry loop of section 4.2 on withdraw
RepeatedlyTryWithdraw(i, run) ==
    Continue(i, [run EXCEPT !.pc = "engAddr", !.op = "withdraw"])

\* the history of the fee oracle's call is dropped
Forget(run) ==
    [run EXCEPT !.fee = NoFee, !.gp = NoPrice, !.quote = NoQuote, !.gasLimit = 0,
                !.carried = 0]

\* the end of an attempt that did not succeed: in the retry loop the delay is
\* computed and `await sleep(delay)` entered; redeemDelta logs and returns
AttemptFailed(i, run) ==
    IF run.kind \in LoopKinds
    THEN Continue(i, [Forget(run) EXCEPT
                        !.pc = "sleep", !.sleeps = @ + 1,
                        !.delay = BackoffDelay(variant, retryBaseMs, run.attempt)])
    ELSE EndRun(i, run, "failed")

\* the gas price is known: clamp it, build tx = {..., gasLimit, gasPrice}, and
\* either log the dry run and return or call wallet.sendTransaction(tx)
PriceResolved(i, run, price) ==
    LET gp == ClampToCap(price, GweiToWei(gasCap)) IN
    IF IsDryRun
    THEN EndRun(i, [run EXCEPT !.txPrice = gp, !.dryLogs = @ + 1], "dryrun")
    ELSE Continue(i, [run EXCEPT !.txPrice = gp, !.subs = @ + 1, !.pc = "send",
                                 !.gasLimit = 0, !.carried = 0,
                                 !.quote = IF run.kind = "rescue" THEN price
                                           ELSE NoQuote])

\* ----------------------------------------- the steps of an engine run
\* rescueLoop / attemptRescueLoop / rescueOnce: `await wallet.getAddress()` answers;
\* the balance query is sent
\* "--- Rescue triggered by: ${rescueReason} ---": the module variable as it
\* is when the run resumes; rescueOnce(reason) of part_003 logs its argument
ReportedReason(run) == IF variant = "p3" THEN run.reason ELSE rescueReason

RescueAddr(i) ==
    /\ i \in EngineRuns /\ runs[i].pc = "addr"
    /\ \E ok \in BOOLEAN :
        IF ok THEN Continue(i, [runs[i] EXCEPT !.pc = "size",
                                               !.logged = ReportedReason(runs[i])])
        ELSE EndRun(i, runs[i], "error")
    /\ UNCHANGED <<config, ws, rescueReason, proc, mainDone, patrolPc, lastPatrol, lastCall>>

\* rescue-bot.js:208-220, once both balances are read
ChooseAction(i, run) ==
    IF run.shares = 0 /\ run.under = 0 THEN EndRun(i, run, "nothing")
    ELSE IF run.shares > 0 THEN StartRedeem(i, run)
    ELSE RepeatedlyTryWithdraw(i, run)

\* vault.balanceOf(signer) (rb, p1) or vault.maxRedeem(signer) (p3, p5) answers
Sizing(i) ==
    /\ i \in EngineRuns /\ runs[i].pc = "size"
    /\ \E ok \in BOOLEAN, amount \in ShareAmounts :
        LET run == [runs[i] EXCEPT !.shares = IF ok THEN amount ELSE 0,
                                   !.logged = "none"] IN
        IF variant = "rb"
        THEN \* a failed read leaves shareBalance = 0n and the run goes on
             IF hasToken THEN Continue(i, [run EXCEPT !.pc = "underlying"])
             ELSE ChooseAction(i, run)
        ELSE IF ~ok THEN EndRun(i, run, "nothing")
        ELSE IF NothingToRescue(amount) THEN EndRun(i, run, "nothing")
        ELSE StartRedeem(i, run)
    /\ UNCHANGED <<config, ws, rescueReason, proc, mainDone, patrolPc, lastPatrol, lastCall>>

\* rescue-bot.js: underlying.balanceOf(signerAddress) answers
ReadUnderlying(i) ==
    /\ i \in EngineRuns /\ runs[i].pc = "underlying"
    /\ \E ok \in BOOLEAN, amount \in AssetAmounts :
        ChooseAction(i, [runs[i] EXCEPT !.under = IF ok THEN amount ELSE 0])
    /\ UNCHANGED <<config, ws, rescueReason, proc, mainDone, patrolPc, lastPatrol, lastCall>>

CarriedAttempt(run) == run.carried
\* let attempt = 0: a local of the retry loop
InitialAttempt(run) == 0

\* the retry loop's `await wallet.getAddress()` answers: attempt = 0,
\* gasGwei = gasStart, and the loop is entered
EngineAddr(i) ==
    /\ i \in LoopRuns /\ runs[i].pc = "engAddr"
    /\ \E ok \in BOOLEAN :
        IF ok
        THEN EnterLoop(i, [runs[i] EXCEPT !.attempt = InitialAttempt(runs[i]),
                                          !.gasGwei = gasStart,
                                          !.prevGwei = gasStart])
        ELSE EndRun(i, runs[i], "error")
    /\ UNCHANGED <<config, ws, rescueReason, proc, mainDone, patrolPc, lastPatrol, lastCall>>

SkippedOnRevert(reverted) == IF reverted THEN "sleep" ELSE "estimate"
\* the catch around httpProvider.call logs "(ok)" and falls through to the
\* gas estimate
AfterSimulation(reverted) == "estimate"

\* httpProvider.call(callRequest) answers or reverts: either way the attempt goes on
Simulate(i) ==
    /\ i \in 1..Len(runs) /\ runs[i].pc = "simulate"
    /\ \E reverted \in BOOLEAN :
        Continue(i, [runs[i] EXCEPT !.pc = AfterSimulation(reverted)])
    /\ UNCHANGED <<config, ws, rescueReason, proc, mainDone, patrolPc, lastPatrol, lastCall>>

\* httpProvider.estimateGas answers or fails (the fallback gas limit is used);
\* getSafeGasPrice is called and awaits getFeeData()
EstimateGas(i) ==
    /\ i \in 1..Len(runs) /\ runs[i].pc = "estimate"
    /\ \E est \in EstimateAnswers :
        Continue(i, [runs[i] EXCEPT
                       !.pc = "feeData",
                       !.gasLimit = GasLimitOf(variant, runs[i].kind, est)])
    /\ UNCHANGED <<config, ws, rescueReason, proc, mainDone, patrolPc, lastPatrol, lastCall>>

\* getFeeData() answers: its fee is returned if it is truthy, else getGasPrice() is awaited
GetFeeData(i) ==
    /\ i \in 1..Len(runs) /\ runs[i].pc = "feeData"
    /\ \E fee \in FeeAnswers :
        LET run == [runs[i] EXCEPT !.fee = IF runs[i].kind = "rescue" THEN fee ELSE NoFee] IN
        IF fee.ok /\ FeeField(fee, variant) # 0
        THEN PriceResolved(i, run, OracleReturn(fee, NoPrice, run.gasGwei, variant))
        ELSE Continue(i, [run EXCEPT !.pc = "gasPrice"])
    /\ UNCHANGED <<config, ws, rescueReason, proc, mainDone, patrolPc, lastPatrol, lastCall>>

\* getGasPrice() answers: its price if truthy, else the preferred gwei in wei,
\* BigInt(Math.floor(gweiPreferred * 1e9)) (part_003: BigInt(gweiPreferred * 1e9))
GetGasPrice(i) ==
    /\ i \in 1..Len(runs) /\ runs[i].pc = "gasPrice"
    /\ \E gp \in PriceAnswers :
        LET run == [runs[i] EXCEPT !.gp = IF runs[i].kind = "rescue" THEN gp ELSE NoPrice] IN
        IF ~(gp.ok /\ gp.price # 0) /\ BigIntRaises(run.gasGwei, variant)
        THEN \* the throw is caught by the catch around the attempt
             AttemptFailed(i, [run EXCEPT !.raised = TRUE])
        ELSE PriceResolved(i, run, OracleReturn(run.fee, gp, run.gasGwei, variant))
    /\ UNCHANGED <<config, ws, rescueReason, proc, mainDone, patrolPc, lastPatrol, lastCall>>

\* wallet.sendTransaction(tx) answers with the sent transaction (sent.wait is
\* awaited) or throws
SendTransaction(i) ==
    /\ i \in 1..Len(runs) /\ runs[i].pc = "send"
    /\ \E ok \in BOOLEAN :
        IF ok THEN Continue(i, [Forget(runs[i]) EXCEPT !.pc = "wait"])
        ELSE AttemptFailed(i, runs[i])
    /\ UNCHANGED <<config, ws, rescueReason, proc, mainDone, patrolPc, lastPatrol, lastCall>>

LoggedAnyway(returned) == TRUE
\* redeemDelta: console.log("Event-delta redeem SUCCESS") is the statement
\* after `await sent.wait(1)`, inside the try
LoggedAfterWait(returned) == returned

\* sent.wait(1) answers with a receipt or throws. The retry loop tests
\* rcpt.status === 1n; redeemDelta logs SUCCESS once wait() has returned
WaitReceipt(i) ==
    /\ i \in 1..Len(runs) /\ runs[i].pc = "wait"
    /\ \/ IF runs[i].kind = "delta" /\ LoggedAfterWait(FALSE)
          THEN EndRun(i, runs[i], "succeeded")
          ELSE AttemptFailed(i, runs[i])
       \/ \E status \in ReceiptStatuses :
            LET run == [runs[i] EXCEPT !.okSeen = @ \/ status.val = 1] IN
            IF run.kind = "delta"
            THEN IF LoggedAfterWait(TRUE) THEN EndRun(i, run, "succeeded")
                 ELSE AttemptFailed(i, run)
            ELSE IF StatusIsSuccess(status) THEN EndRun(i, run, "succeeded")
            ELSE AttemptFailed(i, run)
    /\ UNCHANGED <<config, ws, rescueReason, proc, mainDone, patrolPc, lastPatrol, lastCall>>

\* sleep(delay) is over: the bid is bumped and the loop test is made
BackoffElapsed(i) ==
    /\ i \in LoopRuns /\ runs[i].pc = "sleep"
    /\ EnterLoop(i, [runs[i] EXCEPT !.prevGwei = runs[i].gasGwei,
                                    !.gasGwei = BumpGas(@, gasCap, variant)])
    /\ UNCHANGED <<config, ws, rescueReason, proc, mainDone, patrolPc, lastPatrol, lastCall>>

\* redeemDelta(deltaAssets) of part_005: `await wallet.getAddress()` answers;
\* a delta of zero returns, else the redeem call is built and simulated
DeltaAddr(i) ==
    /\ i \in DeltaRuns /\ runs[i].pc = "addr"
    /\ IF runs[i].shares <= 0 THEN EndRun(i, runs[i], "nothing")
       ELSE \E held \in ShareAmounts :
                Continue(i, [runs[i] EXCEPT !.pc = "simulate",
                                            !.data = RequestAmount(runs[i], held)])
    /\ UNCHANGED <<config, ws, rescueReason, proc, mainDone, patrolPc, lastPatrol, lastCall>>

\* the handler that awaits redeemDelta(...) resumes and returns
DeltaReturns(i) ==
    /\ i \in DeltaRuns /\ runs[i].pc = "done"
    /\ runs' = RemoveAt(runs, i)
    /\ UNCHANGED <<config, ws, rescueRunning, rescueReason, proc, mainDone, patrolPc,
                   lastPatrol, lastCall, lastEnded>>

\* --------------------------------------------- main, events and patrol
ExitCodeZero == "exit0"
\* process.exit(1)
ExitCodeOne == "exit1"

NeverMissing == FALSE
\* if (!RPC_WS || !RPC_HTTP || !PRIVATE_KEY || !OWNER_ADDRESS || !VAULT_ADDRESS)
MissingRequired == \E name \in RequiredEnv : name \notin env

\* the module is loaded: the configuration check, then the providers, the wallet
\* and the contracts are created (part_003 attaches its handlers here)
LoadModule ==
    /\ proc = "load"
    /\ proc' = IF MissingRequired THEN ExitCodeOne ELSE "running"
    /\ UNCHANGED <<config, ws, rescueRunning, rescueReason, runs, mainDone, patrolPc,
                   lastPatrol, lastCall, lastEnded>>

\* let rescueReason = "startup" / lastTriggerReason = null / rescueReason = ""
InitialReason(v) ==
    CASE v = "rb" -> "null"
      [] v = "p3" -> ""
      [] OTHER -> "startup"

AttachedWhenIdle == proc = "running" /\ mainDone /\ ~rescueRunning
\* vaultWs.on(...) has run: at load in part_003 (createWsProvider), else in main()
\* in the turn that makes the startup trigger
HandlersAttached == proc = "running" /\ (variant = "p3" \/ mainDone)

\* the draft whose main() registers a 'close' handler that exits: rescue-bot.js
\* (part_003 reconnects; part_001:1-229 and part_005 register none)
FailFast(v) == v = "rb"

\* wsProvider._websocket.on('close', ...) of rescue-bot.js:
\* process.exit(1) ends the process and with it every call in flight
OnWsClose ==
    /\ proc = "running" /\ mainDone /\ FailFast(variant)
    /\ proc' = ExitCodeOne
    /\ runs' = <<>>
    /\ UNCHANGED <<config, ws, rescueRunning, rescueReason, mainDone, patrolPc,
                   lastPatrol, lastCall, lastEnded>>

\* a handler of part_005 calls redeemDelta(assets); getSafeGasPrice(10) is its bid
RedeemDelta(assets) ==
    /\ Cardinality(DeltaRuns) < MaxDelta
    /\ runs' = Append(runs, [NewRun("delta", "none", assets)
                               EXCEPT !.gasGwei = 100, !.prevGwei = 100])
    /\ UNCHANGED <<rescueRunning, rescueReason, lastCall, lastEnded>>

\* main(): the handlers are registered (rb, p1, p5), patrolLoop() is started
\* (p3) and the startup trigger is made
MainStartup ==
    /\ proc = "running" /\ ~mainDone
    /\ mainDone' = TRUE
    /\ patrolPc' = IF variant = "p3" /\ patrolEnabled THEN "addr" ELSE patrolPc
    /\ TriggerRescue("startup")
    /\ UNCHANGED <<config, ws, proc, lastPatrol>>

\* vaultWs.on("Deposit", ...)
OnDeposit ==
    /\ HandlersAttached
    /\ \E assets \in AssetAmounts :
        IF variant = "p5" THEN RedeemDelta(assets) ELSE TriggerRescue("Deposit")
    /\ UNCHANGED <<config, ws, proc, mainDone, patrolPc, lastPatrol>>

\* vaultWs.on("Withdraw", ...)
OnWithdraw ==
    /\ HandlersAttached
    /\ TriggerRescue("Withdraw")
    /\ UNCHANGED <<config, ws, proc, mainDone, patrolPc, lastPatrol>>

\* vaultWs.on("Transfer", ...): part_005 looks at the destination
OnTransferTo(toVault) ==
    /\ HandlersAttached
    /\ \E value \in AssetAmounts :
        IF variant = "p5"
        THEN IF toVault THEN RedeemDelta(value)
             ELSE UNCHANGED <<rescueRunning, rescueReason, runs, lastCall, lastEnded>>
        ELSE TriggerRescue("Transfer")
    /\ UNCHANGED <<config, ws, proc, mainDone, patrolPc, lastPatrol>>

\* the Transfer handler is called, for a transfer to the vault or to another
\* address
OnTransfer == \E toVault \in BOOLEAN : OnTransferTo(toVault)

NoPatrol == [ok |-> FALSE, redeemable |-> -1]

NeverDetected(redeemable) == FALSE
AlwaysDetected(redeemable) == TRUE
\* if (redeemable > 0n)
LiquidityDetected(redeemable) == redeemable > 0

\* patrolLoop(): `await wallet.getAddress()` answers, the first query is sent
PatrolAddr ==
    /\ patrolPc = "addr"
    /\ patrolPc' = "query"
    /\ UNCHANGED <<config, ws, rescueRunning, rescueReason, runs, proc, mainDone, lastPatrol, lastCall, lastEnded>>

\* patrolLoop(): vault.maxRedeem(signer) answers or fails, then sleep(patrolMs)
PatrolQuery ==
    /\ patrolPc = "query"
    /\ patrolPc' = "sleep"
    /\ \E ok \in BOOLEAN, redeemable \in ShareAmounts :
        /\ lastPatrol' = [ok |-> ok, redeemable |-> IF ok THEN redeemable ELSE 0]
        /\ IF ok /\ LiquidityDetected(redeemable) THEN TriggerRescue("patrol")
           ELSE UNCHANGED <<rescueRunning, rescueReason, runs, lastCall, lastEnded>>
    /\ UNCHANGED <<config, ws, proc, mainDone>>

\* patrolLoop(): sleep(patrolMs) is over, `while (patrolEnabled)` holds
PatrolWake ==
    /\ patrolPc = "sleep"
    /\ patrolPc' = "query"
    /\ lastPatrol' = NoPatrol
    /\ UNCHANGED <<config, ws, rescueRunning, rescueReason, runs, proc, mainDone, lastCall, lastEnded>>

\* ---------------------------------------------------- the specification
Init ==
    /\ env \in SUBSET RequiredEnv
    /\ variant \in Variants
    /\ dryRun \in BOOLEAN
    /\ maxRetries \in 1..MaxRetriesBound
    /\ \E g \in GasConfigsOf(variant) : gasStart = g[1] /\ gasCap = g[2]
    /\ hasToken \in (IF variant = "rb" THEN BOOLEAN ELSE {FALSE})
    /\ patrolEnabled \in (IF variant = "p3" THEN BOOLEAN ELSE {FALSE})
    /\ retryBaseMs = RetryBaseDefault(variant)
    /\ rescueRunning = FALSE
    /\ rescueReason = InitialReason(variant)
    /\ runs = <<>>
    /\ proc = "load"
    /\ mainDone = FALSE
    /\ patrolPc = "off"
    /\ lastPatrol = NoPatrol
    /\ lastCall = "none"
    /\ lastEnded = NoSession
    /\ ws = NoWatcher

Next ==
    \/ LoadModule
    \/ OnWsClose
    \/ MainStartup
    \/ OnDeposit
    \/ OnWithdraw
    \/ OnTransfer
    \/ PatrolAddr
    \/ PatrolQuery
    \/ PatrolWake
    \/ \E i \in 1..Len(runs) : RescueAddr(i)
    \/ \E i \in 1..Len(runs) : Sizing(i)
    \/ \E i \in 1..Len(runs) : ReadUnderlying(i)
    \/ \E i \in 1..Len(runs) : EngineAddr(i)
    \/ \E i \in 1..Len(runs) : Simulate(i)
    \/ \E i \in 1..Len(runs) : EstimateGas(i)
    \/ \E i \in 1..Len(runs) : GetFeeData(i)
    \/ \E i \in 1..Len(runs) : GetGasPrice(i)
    \/ \E i \in 1..Len(runs) : SendTransaction(i)
    \/ \E i \in 1..Len(runs) : WaitReceipt(i)
    \/ \E i \in 1..Len(runs) : BackoffElapsed(i)
    \/ \E i \in 1..Len(runs) : DeltaAddr(i)
    \/ \E i \in 1..Len(runs) : DeltaReturns(i)

Spec == Init /\ [][Next]_vars

\* a step of the engine run, taken when the call it awaits returns or throws
EngineStep ==
    \E i \in EngineRuns :
        \/ RescueAddr(i) \/ Sizing(i) \/ ReadUnderlying(i) \/ EngineAddr(i)
        \/ Simulate(i) \/ EstimateGas(i) \/ GetFeeData(i) \/ GetGasPrice(i)
        \/ SendTransaction(i) \/ WaitReceipt(i) \/ BackoffElapsed(i)

\* the patrol query answers a non-zero redeemable amount
PatrolFinds == PatrolQuery /\ lastPatrol'.ok /\ lastPatrol'.redeemable > 0

\* Every call the engine run awaits returns or throws, so the run goes on
\* (weak fairness of its steps).
EngineLiveSpec == Spec /\ WF_vars(EngineStep)

\* Every awaited call returns or throws, so the run suspended at it goes on
\* (weak fairness of the engine's and the patrol's steps); and the vault
\* keeps a non-zero redeemable amount, so the patrol query, asked again and
\* again, is answered with it (strong fairness of that answer).
LiveSpec ==
    /\ Spec
    /\ WF_vars(EngineStep)
    /\ WF_vars(PatrolAddr)
    /\ WF_vars(PatrolWake)
    /\ SF_vars(PatrolFinds)

\* --------------------------------- part_002 and part_004: the watcher
\* The drafts that recreate the WebSocket provider (part_003 on a close,
\* part_002 and part_004 with a growing delay), and those of them without the
\* gate, whose handlers call attemptRedeemShares themselves.
SelfHeal == {"p2", "p3", "p4"}
EventDelta == {"p2", "p4"}

\* an event of the vault on the ledger
NoEvent == [class |-> "none", toVault |-> FALSE, amount |-> 0]
LedgerEvents ==
    [class : {"Deposit"}, toVault : {FALSE}, amount : AssetAmounts] \cup
    [class : {"Withdraw"}, toVault : {FALSE}, amount : {0}] \cup
    [class : {"Transfer"}, toVault : BOOLEAN, amount : AssetAmounts]

\* One WebSocketProvider and the contracts bound to it.
\*   st        "connecting", "open" or "closing" (a closed one is dropped)
\*   handlers  the handlers of each event class registered on its contracts
\*   pending   the latest ledger event has reached it and is not yet dispatched
NewSock(h) == [st |-> "connecting", handlers |-> h, pending |-> FALSE]

\* The module-level state of the watcher.
\*   raw       wsProvider._websocket is exposed (the test of part_002:102)
\*   socks     the providers created and not yet closed, oldest first
\*   psock     the place in socks of the provider wsProvider refers to, 0 if
\*             wsProvider is null or its provider has closed
\*   hasVaultWs, vsock   vaultWs is not null; the place in socks of the
\*             provider its contract is bound to, 0 if that has closed
\*   mine      the handlers of each class registered on the contract vaultWs
\*   attached  the flag of part_002
\*   attempts  reconnectAttempts / wsRetryCount
\*   timers    the reconnect timers set and not yet fired
\*   event, dispatched   the ledger event being delivered; how many handlers
\*             the latest ledger event has been dispatched to (history)
\*   consec, lastDelay   the reconnects scheduled since a connection last
\*             opened, and the delay of the latest of them (history)
NewWatcher(raw) ==
    [raw |-> raw, socks |-> <<>>, psock |-> 0, hasVaultWs |-> FALSE, vsock |-> 0,
     mine |-> 0, attached |-> FALSE, attempts |-> 0, timers |-> 0,
     event |-> NoEvent, dispatched |-> 0, consec |-> 0, lastDelay |-> 0]

\* vaultWs.on('Deposit', ...), .on('Transfer', ...), .on('Withdraw', ...):
\* one more handler of each class on the contract vaultWs
AttachHandlers(w) ==
    [w EXCEPT !.mine = @ + 1,
              !.socks = IF w.vsock = 0 THEN @
                        ELSE [@ EXCEPT ![w.vsock].handlers = @ + 1]]

\* vaultWs.removeAllListeners('Deposit'), ('Transfer'), ('Withdraw')
RemoveAllListeners(w) ==
    [w EXCEPT !.mine = 0,
              !.socks = IF w.vsock = 0 THEN @
                        ELSE [@ EXCEPT ![w.vsock].handlers = @ - w.mine]]

\* vaultWs = new ethers.Contract(VAULT_ADDRESS, ERC4626_ABI, wsProvider)
NewVaultWs(w) == [w EXCEPT !.hasVaultWs = TRUE, !.vsock = w.psock, !.mine = 0]

\* wsProvider = new ethers.WebSocketProvider(RPC_WS)
NewProvider(w) ==
    [w EXCEPT !.socks = Append(@, NewSock(0)), !.psock = Len(w.socks) + 1]

\* part_002: clearVaultListeners()
ClearVaultListeners(w) ==
    IF w.hasVaultWs /\ w.attached
    THEN [RemoveAllListeners(w) EXCEPT !.attached = FALSE]
    ELSE w

\* part_002: attachVaultEventsSafe()
AttachVaultEventsSafe(w) ==
    LET cleared == ClearVaultListeners(w)
        bound == IF cleared.hasVaultWs THEN cleared ELSE NewVaultWs(cleared)
    IN  [AttachHandlers(bound) EXCEPT !.attached = TRUE]

\* part_004: attachWsEventHandlers(), called with vaultWs just created
AttachWsEventHandlers(w) ==
    IF ~w.hasVaultWs THEN w ELSE AttachHandlers(RemoveAllListeners(w))

KeepAttempts(n) == n
\* reconnectAttempts = 0 / wsRetryCount = 0
ResetAttempts(n) == 0

\* setTimeout(..., delay): one more reconnect timer
SetReconnectTimer(w, delay) ==
    [w EXCEPT !.timers = @ + 1, !.consec = @ + 1, !.lastDelay = delay]

\* part_002: scheduleReconnect()
ScheduleReconnect(w) ==
    SetReconnectTimer([w EXCEPT !.attempts = @ + 1],
                      Min(30000, 1000 * Pow(2, w.attempts + 1)))

\* part_004: scheduleWsReconnect(delayMs)
ScheduleWsReconnect(w, delayMs) == SetReconnectTimer(w, Min(30000, delayMs))

\* createWsProvider() of part_002 and part_003, tryCreateWs() of part_004;
\* `ok` is false when new ethers.WebSocketProvider(RPC_WS) throws
CreateWsProvider(w, ok) ==
    CASE variant = "p3" ->
            \* the 'close' listener is set on the socket, the handlers attached
            AttachHandlers(NewVaultWs(NewProvider(w)))
      [] variant = "p4" ->
            IF ok
            THEN [AttachWsEventHandlers(NewVaultWs(NewProvider(w)))
                    EXCEPT !.attempts = ResetAttempts(@)]
            ELSE ScheduleWsReconnect([w EXCEPT !.attempts = @ + 1],
                                     Min(30000, 1000 * Pow(2, w.attempts + 1)))
      [] variant = "p2" ->
            IF ~ok THEN ScheduleReconnect(w)
            ELSE IF w.raw
            THEN \* the 'open', 'close' and 'error' listeners are set on the socket
                 NewVaultWs(NewProvider(w))
            ELSE NewVaultWs(AttachVaultEventsSafe(NewProvider(w)))

\* the module is loaded: the configuration check, the HTTP provider, the
\* wallet and the contracts, and createWsProvider() / tryCreateWs()
LoadWatcher(ok) ==
    /\ proc = "load" /\ variant \in SelfHeal
    /\ proc' = IF MissingRequired THEN ExitCodeOne ELSE "running"
    /\ ws' = IF MissingRequired THEN ws ELSE CreateWsProvider(ws, ok)
    /\ UNCHANGED <<config, rescueRunning, rescueReason, runs, mainDone, patrolPc,
                   lastPatrol, lastCall, lastEnded>>

\* the socket of provider s opens: notifications flow from now on; part_002
\* resets reconnectAttempts and attaches its handlers in the 'open' listener
WsOpen(s) ==
    /\ proc = "running" /\ s \in 1..Len(ws.socks) /\ ws.socks[s].st = "connecting"
    /\ LET opened == [ws EXCEPT !.socks[s].st = "open", !.consec = 0] IN
        ws' = IF variant = "p2" /\ ws.raw
              THEN AttachVaultEventsSafe([opened EXCEPT !.attempts = ResetAttempts(@)])
              ELSE opened
    /\ UNCHANGED <<config, rescueRunning, rescueReason, runs, proc, mainDone, patrolPc,
                   lastPatrol, lastCall, lastEnded>>

\* the providers alive at a time, the reconnect timers pending at a time, and
\* the reconnects scheduled in a row that are followed
MaxSockets == 2
MaxTimers == 2
MaxReconnects == 3

\* provider s is gone: the places after it move down by one
Moved(p, s) == IF p = s THEN 0 ELSE IF p > s THEN p - 1 ELSE p
RemoveSock(w, s) ==
    [w EXCEPT !.socks = RemoveAt(@, s), !.psock = Moved(@, s), !.vsock = Moved(@, s),
              !.event = IF \E t \in 1..Len(w.socks) : t # s /\ w.socks[t].pending
                        THEN @ ELSE NoEvent]

\* the 'error' listeners: part_002 on the raw socket, part_004 on the provider
\* (part_003 has none). The provider stays as it is.
WsError(s) ==
    /\ proc = "running" /\ s \in 1..Len(ws.socks)
    /\ ws.socks[s].st \in {"connecting", "open"}
    /\ (variant = "p2" /\ ws.raw) \/ variant = "p4"
    /\ ws.timers < MaxTimers /\ ws.consec < MaxReconnects /\ ws.attempts < MaxReconnects
    /\ ws' = IF variant = "p2" THEN ScheduleReconnect(ws)
             ELSE ScheduleWsReconnect(ws, 2000)
    /\ UNCHANGED <<config, rescueRunning, rescueReason, runs, proc, mainDone, patrolPc,
                   lastPatrol, lastCall, lastEnded>>

\* the socket of provider s closes; the 'close' listeners of part_002 and
\* part_003 (part_004 has none)
WsClose(s) ==
    /\ proc = "running" /\ s \in 1..Len(ws.socks)
    /\ ws.timers < MaxTimers /\ ws.consec < MaxReconnects /\ ws.attempts < MaxReconnects
    /\ LET gone == RemoveSock(ws, s) IN
        ws' = CASE variant = "p2" /\ ws.raw -> ScheduleReconnect(gone)
                [] variant = "p3" -> SetReconnectTimer(gone, 3000)
                [] OTHER -> gone
    /\ UNCHANGED <<config, rescueRunning, rescueReason, runs, proc, mainDone, patrolPc,
                   lastPatrol, lastCall, lastEnded>>

\* part_002: try { wsProvider?._websocket?.close?.() } catch {}
CloseCurrent(w) ==
    IF w.raw /\ w.psock # 0
    THEN [w EXCEPT !.socks[w.psock].st = "closing", !.socks[w.psock].pending = FALSE,
                   !.event = IF \E t \in 1..Len(w.socks) :
                                    t # w.psock /\ w.socks[t].pending
                              THEN @ ELSE NoEvent]
    ELSE w

\* a reconnect timer fires: part_002 closes the current socket first; then
\* createWsProvider() / tryCreateWs()
ReconnectTimer(ok) ==
    /\ proc = "running" /\ ws.timers > 0
    /\ Len(ws.socks) < MaxSockets
    /\ variant = "p3" => ok
    /\ ~ok => ws.consec < MaxReconnects /\ ws.attempts < MaxReconnects
    /\ LET fired == [ws EXCEPT !.timers = @ - 1] IN
        ws' = CreateWsProvider(IF variant = "p2" THEN CloseCurrent(fired) ELSE fired, ok)
    /\ UNCHANGED <<config, rescueRunning, rescueReason, runs, proc, mainDone, patrolPc,
                   lastPatrol, lastCall, lastEnded>>

\* the handler calls followed at a time
MaxCalls == 1

\* the calls of the handlers in flight
EventRuns == {i \in 1..Len(runs) : runs[i].kind = "event"}

\* a vault event is logged on the ledger: every open provider with a
\* subscription is sent its notification
LedgerEvent ==
    /\ proc = "running"
    /\ \A s \in 1..Len(ws.socks) : ~ws.socks[s].pending
    /\ \E s \in 1..Len(ws.socks) : ws.socks[s].st = "open" /\ ws.socks[s].handlers > 0
    /\ \E e \in LedgerEvents :
        ws' = [ws EXCEPT
                 !.event = e, !.dispatched = 0,
                 !.socks = [s \in 1..Len(ws.socks) |->
                              [ws.socks[s] EXCEPT
                                 !.pending = ws.socks[s].st = "open"
                                             /\ ws.socks[s].handlers > 0]]]
    /\ UNCHANGED <<config, rescueRunning, rescueReason, runs, proc, mainDone, patrolPc,
                   lastPatrol, lastCall, lastEnded>>

\* a handler of part_002 / part_004 starts handleDepositEvent, handleInboundTransfer
\* or patrolRescue, which runs up to its first await
CallHandler(reason, amount, pc) ==
    /\ runs' = Append(runs, [NewRun("event", reason, amount) EXCEPT !.pc = pc])
    /\ UNCHANGED <<rescueRunning, rescueReason, lastCall, lastEnded>>

\* the handlers of the vault events, as the source registers them:
\* part_003 triggers the gate on each class; part_002 and part_004 redeem
\* the delta of a deposit and of a transfer to the vault, and patrol on a withdrawal
HandleEvent(e) ==
    IF variant = "p3" THEN TriggerRescue(e.class)
    ELSE IF e.class = "Deposit" /\ e.amount > 0
    THEN CallHandler("deposit-event", e.amount, "convert")
    ELSE IF e.class = "Transfer" /\ e.toVault /\ e.amount > 0
    THEN CallHandler("transfer-event", e.amount, "convert")
    ELSE IF e.class = "Withdraw"
    THEN CallHandler("patrol", 0, "pAddr")
    ELSE UNCHANGED <<rescueRunning, rescueReason, runs, lastCall, lastEnded>>

\* provider s receives the notification and its contract calls the handlers
\* registered for the event
Receive(s) ==
    /\ proc = "running" /\ s \in 1..Len(ws.socks)
    /\ ws.socks[s].pending /\ ws.socks[s].st = "open"
    /\ variant \in EventDelta => Cardinality(EventRuns) < MaxCalls
    /\ LET last == \A t \in 1..Len(ws.socks) : t # s => ~ws.socks[t].pending IN
        ws' = [ws EXCEPT !.socks[s].pending = FALSE,
                         !.dispatched = @ + ws.socks[s].handlers,
                         !.event = IF last THEN NoEvent ELSE @]
    /\ IF ws.socks[s].handlers > 0 THEN HandleEvent(ws.event)
       ELSE UNCHANGED <<rescueRunning, rescueReason, runs, lastCall, lastEnded>>
    /\ UNCHANGED <<config, proc, mainDone, patrolPc, lastPatrol>>

\* -------------------------- part_002 and part_004: handlers and patrol
\* attemptRedeemShares(shares, reason) is called: zero shares are skipped,
\* else it suspends at `await wallet.getAddress()`
AttemptRedeemShares(i, run) ==
    IF run.shares <= 0 THEN EndRun(i, run, "nothing")
    ELSE Continue(i, [run EXCEPT !.pc = "engAddr"])

\* assetsToShares(assets): vault.convertToShares answers, or fails and the
\* assets are taken 1:1; then `await wallet.getAddress()`
ConvertToShares(i) ==
    /\ i \in EventRuns /\ runs[i].pc = "convert"
    /\ \E ok \in BOOLEAN, s \in ShareAmounts :
        Continue(i, [runs[i] EXCEPT !.pc = "hAddr", !.shares = IF ok THEN s ELSE @])
    /\ UNCHANGED <<config, ws, rescueReason, proc, mainDone, patrolPc, lastPatrol, lastCall>>

\* handleDepositEvent / handleInboundTransfer: wallet.getAddress() answers,
\* vault.maxRedeem(signer) is asked
HandlerAddr(i) ==
    /\ i \in EventRuns /\ runs[i].pc = "hAddr"
    /\ Continue(i, [runs[i] EXCEPT !.pc = "maxRedeem"])
    /\ UNCHANGED <<config, ws, rescueReason, proc, mainDone, patrolPc, lastPatrol, lastCall>>

\* handleDepositEvent / handleInboundTransfer: vault.maxRedeem(signer) answers
\* (0: return; else the shares are capped by it) or fails (the catch logs
\* "proceeding"); then attemptRedeemShares is called
MaxRedeemCheck(i) ==
    /\ i \in EventRuns /\ runs[i].pc = "maxRedeem"
    /\ \E ok \in BOOLEAN, maxR \in ShareAmounts :
        IF ~ok THEN AttemptRedeemShares(i, [runs[i] EXCEPT !.checkFailed = TRUE])
        ELSE IF maxR = 0 THEN EndRun(i, runs[i], "nothing")
        ELSE AttemptRedeemShares(i, [runs[i] EXCEPT !.shares = Min(@, maxR),
                                                    !.redeemable = maxR])
    /\ UNCHANGED <<config, ws, rescueReason, proc, mainDone, patrolPc, lastPatrol, lastCall>>

\* the calls of patrolRescue() and of the handlers in flight
HealRuns == {i \in 1..Len(runs) : runs[i].kind \in {"event", "patrol"}}

\* patrolRescue(): wallet.getAddress() answers, vault.maxRedeem(signer) is asked
PatrolRescueAddr(i) ==
    /\ i \in HealRuns /\ runs[i].pc = "pAddr"
    /\ Continue(i, [runs[i] EXCEPT !.pc = "pMax"])
    /\ UNCHANGED <<config, ws, rescueReason, proc, mainDone, patrolPc, lastPatrol, lastCall>>

\* patrolRescue(): vault.maxRedeem(signer) answers or fails
PatrolMaxRedeem(i) ==
    /\ i \in HealRuns /\ runs[i].pc = "pMax"
    /\ \E ok \in BOOLEAN, available \in ShareAmounts :
        IF ~ok THEN EndRun(i, [runs[i] EXCEPT !.checkFailed = TRUE], "error")
        ELSE IF LiquidityDetected(available)
        THEN AttemptRedeemShares(i, [runs[i] EXCEPT !.shares = available])
        ELSE EndRun(i, runs[i], "nothing")
    /\ UNCHANGED <<config, ws, rescueReason, proc, mainDone, patrolPc, lastPatrol, lastCall>>

\* patrolRescue() is called by main (part_002) or by the patrol loop (part_004)
CallPatrolRescue ==
    runs' = <<[NewRun("patrol", "patrol", 0) EXCEPT !.pc = "pAddr"]>> \o runs

\* main() of part_002 and part_004, after its `await wallet.getAddress()`:
\* `await patrolRescue()`, or startPatrolLoop() if the patrol is enabled
HealStartup ==
    /\ proc = "running" /\ ~mainDone /\ variant \in EventDelta
    /\ mainDone' = TRUE
    /\ IF variant = "p2" THEN CallPatrolRescue /\ UNCHANGED patrolPc
       ELSE IF patrolEnabled THEN CallPatrolRescue /\ patrolPc' = "await"
       ELSE UNCHANGED <<runs, patrolPc>>
    /\ UNCHANGED <<config, ws, rescueRunning, rescueReason, proc, lastPatrol, lastCall,
                   lastEnded>>

\* the async function awaiting the call resumes: the handler returns, main
\* logs that it waits for events, the patrol loop goes to sleep(patrolMs)
CallReturns(i) ==
    /\ i \in HealRuns /\ runs[i].pc = "done"
    /\ runs' = RemoveAt(runs, i)
    /\ patrolPc' = IF runs[i].kind = "patrol" /\ patrolPc = "await" THEN "sleep"
                   ELSE patrolPc
    /\ UNCHANGED <<config, ws, rescueRunning, rescueReason, proc, mainDone,
                   lastPatrol, lastCall, lastEnded>>

\* startPatrolLoop() of part_004: sleep(patrolMs) is over, patrolRescue() is
\* called again
PatrolIterate ==
    /\ variant = "p4" /\ patrolPc = "sleep"
    /\ patrolPc' = "await"
    /\ CallPatrolRescue
    /\ UNCHANGED <<config, ws, rescueRunning, rescueReason, proc, mainDone,
                   lastPatrol, lastCall, lastEnded>>

\* HealSpec: part_002 and part_004 while their first connection stands
HealRetries == 1

HealInit ==
    /\ env = RequiredEnv
    /\ variant \in EventDelta
    /\ dryRun \in BOOLEAN
    /\ maxRetries \in 1..HealRetries
    /\ gasStart = 50 /\ gasCap = 100
    /\ hasToken = FALSE
    /\ patrolEnabled \in (IF variant = "p4" THEN BOOLEAN ELSE {FALSE})
    /\ retryBaseMs = RetryBaseDefault(variant)
    /\ rescueRunning = FALSE
    /\ rescueReason = "none"
    /\ runs = <<>>
    /\ proc = "load"
    /\ mainDone = FALSE
    /\ patrolPc = "off"
    /\ lastPatrol = NoPatrol
    /\ lastCall = "none"
    /\ lastEnded = NoSession
    /\ ws \in {NewWatcher(raw) : raw \in (IF variant = "p2" THEN BOOLEAN ELSE {FALSE})}

HealNext ==
    \/ LoadWatcher(TRUE)
    \/ \E s \in 1..Len(ws.socks) : WsOpen(s)
    \/ LedgerEvent
    \/ \E s \in 1..Len(ws.socks) : Receive(s)
    \/ HealStartup
    \/ PatrolIterate
    \/ \E i \in 1..Len(runs) : ConvertToShares(i)
    \/ \E i \in 1..Len(runs) : HandlerAddr(i)
    \/ \E i \in 1..Len(runs) : MaxRedeemCheck(i)
    \/ \E i \in 1..Len(runs) : PatrolRescueAddr(i)
    \/ \E i \in 1..Len(runs) : PatrolMaxRedeem(i)
    \/ \E i \in 1..Len(runs) : EngineAddr(i)
    \/ \E i \in 1..Len(runs) : Simulate(i)
    \/ \E i \in 1..Len(runs) : EstimateGas(i)
    \/ \E i \in 1..Len(runs) : GetFeeData(i)
    \/ \E i \in 1..Len(runs) : GetGasPrice(i)
    \/ \E i \in 1..Len(runs) : SendTransaction(i)
    \/ \E i \in 1..Len(runs) : WaitReceipt(i)
    \/ \E i \in 1..Len(runs) : BackoffElapsed(i)
    \/ \E i \in 1..Len(runs) : CallReturns(i)

HealSpec == HealInit /\ [][HealNext]_vars

\* WatchSpec: the watcher of part_002, part_003 and part_004 with a
\* connection that fails, in dry run
WatchInit ==
    /\ env = RequiredEnv
    /\ variant \in SelfHeal
    /\ dryRun = TRUE
    /\ maxRetries = 1
    /\ gasStart = 50 /\ gasCap = 100
    /\ hasToken = FALSE
    /\ patrolEnabled = FALSE
    /\ retryBaseMs = RetryBaseDefault(variant)
    /\ rescueRunning = FALSE
    /\ rescueReason = "none"
    /\ runs = <<>>
    /\ proc = "load"
    /\ mainDone = FALSE
    /\ patrolPc = "off"
    /\ lastPatrol = NoPatrol
    /\ lastCall = "none"
    /\ lastEnded = NoSession
    /\ ws \in {NewWatcher(raw) : raw \in (IF variant = "p2" THEN BOOLEAN
                                          ELSE IF variant = "p3" THEN {TRUE} ELSE {FALSE})}

WatchNext ==
    \/ \E ok \in BOOLEAN : LoadWatcher(ok)
    \/ \E s \in 1..Len(ws.socks) : WsOpen(s)
    \/ \E s \in 1..Len(ws.socks) : WsError(s)
    \/ \E s \in 1..Len(ws.socks) : WsClose(s)
    \/ \E ok \in BOOLEAN : ReconnectTimer(ok)
    \/ LedgerEvent
    \/ \E s \in 1..Len(ws.socks) : Receive(s)
    \/ \E i \in 1..Len(runs) : ConvertToShares(i)
    \/ \E i \in 1..Len(runs) : HandlerAddr(i)
    \/ \E i \in 1..Len(runs) : MaxRedeemCheck(i)
    \/ \E i \in 1..Len(runs) : PatrolRescueAddr(i)
    \/ \E i \in 1..Len(runs) : PatrolMaxRedeem(i)
    \/ \E i \in 1..Len(runs) : RescueAddr(i)
    \/ \E i \in 1..Len(runs) : Sizing(i)
    \/ \E i \in 1..Len(runs) : EngineAddr(i)
    \/ \E i \in 1..Len(runs) : Simulate(i)
    \/ \E i \in 1..Len(runs) : EstimateGas(i)
    \/ \E i \in 1..Len(runs) : GetFeeData(i)
    \/ \E i \in 1..Len(runs) : GetGasPrice(i)
    \/ \E i \in 1..Len(runs) : CallReturns(i)

WatchSpec == WatchInit /\ [][WatchNext]_vars

\* ------------------------------------------------- the retry loop alone
Drafts == {"rb", "p1", "p2", "p3", "p4", "p5"}
\* RETRY_BASE_MS: 1 ms and the defaults of the drafts
RetryBases == {1, 10000, 12000, 15000}
\* the kind of call that runs the retry loop in the draft
LoopKindOf(v) == IF v \in {"p2", "p4"} THEN "event" ELSE "rescue"

\* The retry loop of each draft has just been called with a non-zero share
\* amount: repeatedlyTryRedeem / attemptRedeemRepeated / attemptRedeemLoop by
\* the engine run of the gate, attemptRedeemShares by a handler.
LoopInit ==
    /\ env = RequiredEnv
    /\ variant \in Drafts
    /\ dryRun \in BOOLEAN
    /\ maxRetries \in 1..MaxRetriesBound
    /\ \E g \in GasConfigs : gasStart = g[1] /\ gasCap = g[2]
    /\ hasToken = FALSE
    /\ patrolEnabled = FALSE
    /\ retryBaseMs \in RetryBases
    /\ rescueRunning = (LoopKindOf(variant) = "rescue")
    /\ rescueReason = "startup"
    /\ runs = << [NewRun(LoopKindOf(variant), "startup", 1000)
                    EXCEPT !.pc = "engAddr"] >>
    /\ proc = "running"
    /\ mainDone = TRUE
    /\ patrolPc = "off"
    /\ lastPatrol = NoPatrol
    /\ lastCall = "startup"
    /\ lastEnded = NoSession
    /\ ws = NoWatcher

LoopNext ==
    \/ \E i \in 1..Len(runs) : EngineAddr(i)
    \/ \E i \in 1..Len(runs) : Simulate(i)
    \/ \E i \in 1..Len(runs) : EstimateGas(i)
    \/ \E i \in 1..Len(runs) : GetFeeData(i)
    \/ \E i \in 1..Len(runs) : GetGasPrice(i)
    \/ \E i \in 1..Len(runs) : SendTransaction(i)
    \/ \E i \in 1..Len(runs) : WaitReceipt(i)
    \/ \E i \in 1..Len(runs) : BackoffElapsed(i)

LoopSpec == LoopInit /\ [][LoopNext]_vars

\* ------------------------------------------------------------ the claims
\* the awaits of the retry loop and of the redeem call of redeemDelta
InRetryLoop(run) == run.pc \in AttemptPcs \cup {"sleep"}

\* C1: whatever the interleaving of startup, event and patrol triggers, at most
\* one engine run is executing at any time: a trigger call made while a run is
\* active starts no further run.
C1_SingleFlight == Cardinality(EngineRuns) <= 1

\* a run is awaiting its confirmation and a later trigger has been recorded
C1_Witness ==
    \E i \in EngineRuns :
        runs[i].pc = "wait" /\ rescueRunning /\ rescueReason # runs[i].reason

\* C2: across all trigger sources of one process at most one redeem
\* transaction is being prepared, submitted or awaited at any time.
C2_NoParallelSubmission ==
    Cardinality({i \in 1..Len(runs) : runs[i].pc \in AttemptPcs}) <= 1

C4_GasPriceCapped ==
    \A i \in 1..Len(runs) : runs[i].txPrice <= GweiToWei(gasCap)

\* a transaction is being submitted at exactly the cap while the session's own
\* bid is below it: the oracle's price was clamped
C4_Witness ==
    \E i \in 1..Len(runs) :
        /\ runs[i].pc = "send" /\ runs[i].txPrice = GweiToWei(gasCap)
        /\ runs[i].gasGwei < gasCap

\* C5: within a session the fee bid gasGwei never decreases from one attempt to
\* the next and never exceeds the configured ceiling.
C5_BidMonotoneCapped ==
    \A i \in EngineRuns :
        InRetryLoop(runs[i]) =>
            runs[i].prevGwei <= runs[i].gasGwei /\ runs[i].gasGwei <= gasCap

C7_ZeroSharesNoSubmission ==
    lastEnded.kind = "rescue" /\ lastEnded.shares = 0 => lastEnded.subs = 0

\* C8: once a submitted transaction is confirmed with success status the
\* session stops: it is not suspended in a backoff sleep or a further attempt,
\* and it ends as succeeded.
C8_StopsOnSuccess ==
    /\ \A i \in EngineRuns : ~runs[i].okSeen
    /\ lastEnded.kind = "rescue" /\ lastEnded.okSeen => lastEnded.outcome = "succeeded"

\* C9: an error raised by the engine run is caught in the trigger entry point
\* and leaves the gate idle: the running flag is false once the run has failed.
C9_IdleAfterError ==
    lastEnded.outcome = "error" => ~rescueRunning /\ EngineRuns = {}

\* an engine run has thrown and the gate is idle again
C9_Witness == lastEnded.outcome = "error" /\ ~rescueRunning

\* C10: while a session is active the recorded reason is the reason of the
\* most recent trigger call: later calls overwrite it.
C10_LatestReasonKept ==
    EngineRuns # {} => rescueReason = lastCall

\* the startup session is active and two later triggers have overwritten its reason
C10_Witness ==
    \E i \in EngineRuns :
        /\ runs[i].reason = "startup" /\ runs[i].pc = "sleep"
        /\ lastCall = "Withdraw" /\ rescueReason = "Withdraw"

\* a step in which triggerRescue / triggerRescueAttempt may be called
TriggerCall == MainStartup \/ OnDeposit \/ OnWithdraw \/ OnTransfer \/ PatrolQuery
\* a step that ends an engine run
SessionEnds == lastEnded' # lastEnded /\ lastEnded'.kind = "rescue"
\* a step after which an engine run stands at its first await that did not before
SessionStarts ==
    \E i \in 1..Len(runs') :
        /\ runs'[i].kind = "rescue" /\ runs'[i].pc = "addr"
        /\ \A j \in 1..Len(runs) : runs[j] # runs'[i]

\* C11: no replay. The step that ends a session leaves the gate idle with no
\* engine run, whatever reasons were recorded while it ran; an engine run
\* starts only in a step that calls the trigger function; and a trigger call
\* made while a session is active leaves that session's run as it was.
C11_NoReplay ==
    [][ /\ SessionEnds => ~rescueRunning' /\ EngineRuns' = {}
        /\ SessionStarts => TriggerCall
        /\ TriggerCall /\ EngineRuns # {} =>
              \A i \in EngineRuns : runs'[i] = runs[i] ]_vars

\* the startup session has ended exhausted with a Deposit trigger recorded
\* while it ran, and the gate is idle
C11_Witness ==
    /\ lastEnded.kind = "rescue" /\ lastEnded.reason = "startup"
    /\ lastEnded.outcome = "exhausted"
    /\ rescueReason = "Deposit" /\ lastCall = "Deposit"
    /\ ~rescueRunning /\ EngineRuns = {}

C13_OracleNeverRaises ==
    /\ \A i \in 1..Len(runs) : ~runs[i].raised
    /\ ~lastEnded.raised

\* C14: each further submission of a session carries a gas price at least
\* that of the submission before it, and a higher one while that was below
\* the cap.
C14_PriceIncreases ==
    [][ \A i \in EngineRuns :
          i <= Len(runs') /\ runs'[i].kind = "rescue"
          /\ runs[i].subs > 0 /\ runs'[i].subs = runs[i].subs + 1
          => /\ runs'[i].txPrice >= runs[i].txPrice
             /\ runs[i].txPrice < GweiToWei(gasCap)
                  => runs'[i].txPrice > runs[i].txPrice ]_vars

\* C15: an admitted session always comes to its end: whatever triggers
\* arrive meanwhile, the running flag is cleared in the end (unless the
\* process has exited before). That is, the flag never stays set for ever:
\* again and again the gate is idle.
C15_SessionTerminates == []<>(~rescueRunning \/ proc = "exit1")

\* a session of three attempts has run to exhaustion although a Transfer
\* trigger arrived while it ran
C15_Witness ==
    /\ maxRetries = 3 /\ lastEnded.outcome = "exhausted" /\ lastEnded.attempt = 3
    /\ lastEnded.reason = "startup" /\ lastCall = "Transfer" /\ ~rescueRunning

\* the step of the patrol loop in which its query is answered
PatrolIteration == patrolPc = "query" /\ patrolPc' # "query"

C17_PatrolBackstop ==
    []<>(~(patrolEnabled /\ patrolPc # "off") \/ rescueRunning)

\* after the startup session has ended, the patrol has started a session
C17_Witness ==
    /\ patrolEnabled /\ lastCall = "patrol"
    /\ \E i \in EngineRuns : runs[i].reason = "patrol" /\ runs[i].pc = "size"

C19_MissingConfigExits ==
    /\ [](env # RequiredEnv =>
            /\ proc \in {"load", "exit1"}
            /\ ~mainDone /\ ~HandlersAttached /\ runs = <<>> /\ ~rescueRunning
            /\ lastCall = "none" /\ patrolPc = "off")
    /\ [][ env # RequiredEnv => proc' = "exit1" ]_vars

\* the process has exited at load with PRIVATE_KEY missing
C19_Witness == "PRIVATE_KEY" \notin env /\ proc = "exit1" /\ ~mainDone

\* C20: the final failed attempt is followed by no backoff sleep: a session
\* sleeps only when a further attempt follows, and an exhausted session has
\* slept once less than it has attempted.
C20_NoSleepAfterFinalAttempt ==
    /\ \A i \in EngineRuns : runs[i].pc = "sleep" => runs[i].attempt < maxRetries
    /\ lastEnded.outcome = "exhausted" => lastEnded.sleeps < lastEnded.attempt

\* C21: for every attempt index k of a session, the fee bid after k failed
\* attempts equals min(ceiling, startBid * escalationFactor^k), with the
\* escalation factor of the draft (both sides times 10^k).
C21_BidGeometric ==
    \A i \in EngineRuns :
        runs[i].pc \in AttemptPcs =>
            LET k == runs[i].attempt - 1
            IN  runs[i].gasGwei * Pow(10, k) =
                    Min(gasCap * Pow(10, k),
                        gasStart * Pow(EscalationFactor(variant), k))

\* C22: the backoff delay slept after the k-th failed attempt equals
\* retryBaseMs * growthFactor^k, in every draft and whatever the maximum.
C22_DelayGeometric ==
    \A i \in LoopRuns :
        runs[i].pc = "sleep" =>
            runs[i].delay = retryBaseMs * Pow(GrowthFactor(variant), runs[i].attempt)

\* C22 as it holds: the delay slept after the k-th failed attempt is
\* retryBaseMs * growthFactor^k in the drafts without a maximum; in the drafts
\* with one it is that product rounded down to whole ms, or 60000 ms if that is
\* less, so it never exceeds 60000 ms; and it never decreases from one failed
\* attempt to the next.
C22_BackoffDelay ==
    /\ [](\A i \in LoopRuns :
            runs[i].pc = "sleep" =>
                LET k == runs[i].attempt
                    exact == retryBaseMs * Pow(GrowthFactor(variant), k)
                    den == Pow(10, k)
                IN  IF HasMaxDelay(variant)
                    THEN /\ runs[i].delay <= 60000 * den
                         /\ \/ runs[i].delay = 60000 * den /\ exact >= 60000 * den
                            \/ /\ runs[i].delay <= exact
                               /\ exact < runs[i].delay + den
                               /\ exact < 60000 * den
                    ELSE runs[i].delay = exact)
    /\ [][ \A i \in LoopRuns :
             i <= Len(runs') /\ runs[i].pc # "sleep" /\ runs'[i].pc = "sleep"
                 => runs'[i].delay >= 10 * runs[i].delay ]_vars

\* a third failed attempt of part_002 with RETRY_BASE_MS=15000 is followed by a
\* sleep of 60000 ms, where 15000 * 1.6^3 = 61440
C22_Witness ==
    \E i \in LoopRuns :
        /\ variant = "p2" /\ retryBaseMs = 15000
        /\ runs[i].pc = "sleep" /\ runs[i].attempt = 3
        /\ runs[i].delay = 60000 * 1000

C24_SizingFailureSubmitsNothing ==
    \A i \in 1..Len(runs) :
        runs[i].checkFailed =>
            /\ runs[i].attempt = 0 /\ runs[i].subs = 0
            /\ runs[i].pc = "done" /\ runs[i].outcome \in {"nothing", "error"}

\* C25: the engine is strictly sequential. Inside an attempt the awaits follow
\* one another in the order simulate, estimate, fee query, submit, confirm;
\* the attempt number changes only when the loop is entered or the backoff
\* sleep has elapsed; an attempt has been preceded by one sleep per earlier
\* attempt and by at most one submission per earlier attempt. The simulation,
\* whatever it answers, is followed by the gas estimate of the same attempt:
\* the backoff is entered from the pricing, the submission or the
\* confirmation only, and the request is submitted once it is priced.
C25_StrictSequence ==
    /\ [](\A i \in LoopRuns :
            runs[i].pc \in AttemptPcs \cup {"sleep"} =>
                /\ runs[i].attempt \in 1..maxRetries
                /\ runs[i].sleeps = runs[i].attempt - (IF runs[i].pc = "sleep" THEN 0 ELSE 1)
                /\ runs[i].subs <= runs[i].attempt
                /\ runs[i].pc \in AttemptPcs \ {"send", "wait"} =>
                        runs[i].subs < runs[i].attempt)
    /\ [][LET Rank(pc) == CASE pc = "simulate" -> 1 [] pc = "estimate" -> 2
                           [] pc = "feeData" -> 3 [] pc = "gasPrice" -> 4
                           [] pc = "send" -> 5 [] pc = "wait" -> 6 [] pc = "sleep" -> 7
                           [] OTHER -> 0
              Step(a, b) ==
                /\ a.pc = "engAddr" => b.pc \in {"simulate", "done"}
                /\ b.pc = "simulate" =>
                        /\ a.pc \in {"engAddr", "sleep"}
                        /\ b.attempt = a.attempt + 1 /\ b.subs = a.subs
                /\ a.pc \in AttemptPcs /\ b.pc # "done" =>
                        /\ b.attempt = a.attempt /\ Rank(b.pc) > Rank(a.pc)
                /\ a.pc = "simulate" => b.pc = "estimate" /\ b.subs = a.subs
                /\ a.pc = "estimate" => b.pc = "feeData" /\ b.subs = a.subs
                /\ b.pc = "sleep" => a.pc \in {"feeData", "gasPrice", "send", "wait"}
                /\ b.pc = "send" <=> b.subs = a.subs + 1
                /\ b.pc = "send" => a.pc \in {"feeData", "gasPrice"} /\ ~dryRun
                /\ b.pc = "wait" => a.pc = "send"
          IN  \A i \in LoopRuns :
                i <= Len(runs') /\ runs'[i] # runs[i] => Step(runs[i], runs'[i])]_vars

\* the second attempt of a session is submitted, after the first was
\* submitted and failed and one backoff sleep has elapsed
C25_Witness ==
    /\ ~dryRun
    /\ \E i \in LoopRuns :
        /\ runs[i].attempt = 2 /\ runs[i].pc = "send"
        /\ runs[i].sleeps = 1 /\ runs[i].subs = 2

\* C26: a Transfer event whose destination is not the vault produces no
\* trigger and no redeem attempt: the handler leaves the gate and the calls
\* in flight as they are.
C26_OnlyTransfersToVault ==
    [][OnTransferTo(FALSE) => UNCHANGED <<rescueRunning, runs>>]_vars

\* C30 as stated: in every draft the gas limit of an attempt is the estimate
\* times 1.2, rounded down, or the fallback of the draft.
C30_EstimateTimesOnePointTwo ==
    \A i \in LoopRuns :
        runs[i].pc \in {"feeData", "gasPrice"} =>
            runs[i].gasLimit \in {(est.gas * 12) \div 10 : est \in {e \in EstimateAnswers : e.ok}}
                                 \cup {FallbackGasLimit(variant, runs[i].kind)}

\* C30: the gas limit of an attempt of the retry loop is the network estimate
\* (here 100001) times the multiplier of the draft, rounded down - 1.2 in
\* rescue-bot.js, part_002 and part_004, 1.25 in part_001 and part_005, 2 in
\* part_003 - or, when the estimate fails, the fallback of the draft: 700000
\* in part_003, 500000 in part_005, 600000 in the others. Either way the
\* attempt goes on to the fee query: the estimate ends no attempt and is
\* followed by no backoff sleep.
C30_GasLimit ==
    /\ [](\A i \in LoopRuns :
            runs[i].pc \in {"feeData", "gasPrice"} =>
                runs[i].gasLimit \in
                    CASE variant \in {"rb", "p2", "p4"} -> {120001, 600000}
                      [] variant = "p1" -> {125001, 600000}
                      [] variant = "p5" -> {125001, 500000}
                      [] variant = "p3" -> {200002, 700000})
    /\ [][\A i \in LoopRuns :
            runs[i].pc = "estimate" /\ i <= Len(runs') /\ runs'[i] # runs[i] =>
                /\ runs'[i].pc = "feeData"
                /\ runs'[i].attempt = runs[i].attempt
                /\ runs'[i].sleeps = runs[i].sleeps
                /\ runs'[i].subs = runs[i].subs]_vars

\* the second attempt of part_003 holds twice the estimate as its gas limit
C30_Witness ==
    /\ variant = "p3"
    /\ \E i \in LoopRuns :
        runs[i].attempt = 2 /\ runs[i].pc = "feeData" /\ runs[i].gasLimit = 200002

\* C27: under the self-heal policy, whatever errors, closes and reconnects
\* came before, a vault event on the ledger is dispatched to at most one
\* handler of its class: no provider carries more than one handler per class,
\* and no two open providers are subscribed at the same time.
C27_DispatchedOnce ==
    /\ ws.dispatched <= 1
    /\ \A s \in 1..Len(ws.socks) : ws.socks[s].handlers <= 1
    /\ Cardinality({s \in 1..Len(ws.socks) :
                      ws.socks[s].st = "open" /\ ws.socks[s].handlers > 0}) <= 1

\* C28: under the self-heal policy, the delay set for the n-th reconnect
\* scheduled in a row (since a connection last opened) is
\* min(30000 ms, 1000 ms * 2^n).
C28_ReconnectDelay ==
    [][ws'.consec = ws.consec + 1 =>
            ws'.lastDelay = Min(30000, 1000 * Pow(2, ws'.consec))]_vars

\* C29: the backoff sleeps and the attempts in flight of a session never
\* block the patrol loop: the loop is never suspended until an attempt or a
\* backoff sleep of the engine is over.
C29_PatrolNotBlocked ==
    \A i \in 1..Len(runs) :
        runs[i].kind = "patrol" /\ runs[i].pc \in AttemptPcs \cup {"sleep"} =>
            patrolPc # "await"

\* C31: sessions are independent. A session admitted after one that ended
\* exhausted starts with no attempt, submission or sleep counted, its first
\* attempt is attempt 1 and bids the configured start bid: it counts only
\* its own attempts and sleeps, whatever count the session before reached,
\* and ends exhausted only after maxRetries attempts and sleeps of its own.
C31_FreshSession ==
    /\ lastEnded.outcome = "exhausted" =>
            lastEnded.attempt = maxRetries /\ lastEnded.sleeps = maxRetries
    /\ \A i \in EngineRuns :
        /\ runs[i].pc \in {"addr", "size", "underlying", "engAddr"} =>
                runs[i].attempt = 0 /\ runs[i].subs = 0 /\ runs[i].sleeps = 0
        /\ runs[i].pc \in AttemptPcs =>
                /\ runs[i].sleeps = runs[i].attempt - 1
                /\ runs[i].subs <= runs[i].attempt
        /\ runs[i].pc \in AttemptPcs /\ runs[i].attempt = 1 =>
                runs[i].gasGwei = gasStart /\ runs[i].prevGwei = gasStart
        /\ runs[i].carried > 0 =>
                /\ runs[i].carried = maxRetries
                /\ runs[i].attempt <= 1 /\ runs[i].pc # "sleep"
                /\ runs[i].pc \in AttemptPcs => runs[i].attempt = 1

\* the first attempt of a session admitted after a session that ended
\* exhausted at its second or third attempt, with a bid that had room to grow
C31_Witness ==
    /\ proc = "running" /\ gasStart < gasCap
    /\ \E i \in EngineRuns :
        /\ runs[i].carried >= 2
        /\ runs[i].pc = "feeData" /\ runs[i].attempt = 1
        /\ runs[i].gasGwei = gasStart

\* C32: event-delta sizing. The shares a Deposit or inbound-Transfer handler
\* asks the engine to redeem were clamped to the redeemable amount the
\* handler read: a redeem call made for an event has read that amount and
\* requests no more than it.
C32_DeltaClamped ==
    \A i \in 1..Len(runs) :
        /\ runs[i].kind \in {"delta", "event"} /\ runs[i].reason # "patrol"
        /\ runs[i].pc \in AttemptPcs
        => /\ runs[i].redeemable # NotRead
           /\ runs[i].shares <= runs[i].redeemable

\* C33: the redeem request is immutable within a session. The calldata of
\* every attempt encodes the amount fixed at sizing (the shares, or the
\* underlying balance of a withdraw): the operation and the amounts of the
\* session do not change while it is in the retry loop, and the calldata of
\* an attempt is that of the attempt before.
C33_RequestImmutable ==
    /\ [](\A i \in EngineRuns :
            runs[i].pc \in AttemptPcs \cup {"sleep"} =>
                /\ runs[i].data > 0
                /\ runs[i].data = (IF runs[i].op = "withdraw" THEN runs[i].under
                                   ELSE runs[i].shares))
    /\ [][\A i \in EngineRuns :
            /\ i \in EngineRuns'
            /\ runs[i].pc \in AttemptPcs \cup {"sleep"}
            => /\ runs'[i].data = runs[i].data
               /\ runs'[i].op = runs[i].op
               /\ runs'[i].under = runs[i].under]_vars

\* the second submission of a session carries the shares sized at its start
C33_Witness ==
    \E i \in EngineRuns :
        /\ runs[i].attempt = 2 /\ runs[i].pc = "send" /\ runs[i].subs = 2
        /\ runs[i].op = "redeem" /\ runs[i].data = 1000 /\ runs[i].shares = 1000

\* C34: the trigger reason a session reports is the reason of the trigger
\* that was admitted and started it, whatever triggers arrived after the
\* admission: what the engine has logged when it resumes from its first
\* await is the reason the session was admitted with.
C34_ReportsAdmittingReason ==
    \A i \in EngineRuns :
        runs[i].pc = "size" => runs[i].logged = runs[i].reason

\* C35: in every reachable state of the running process the running flag is
\* true if and only if exactly one engine run is executing: it is set in the step that starts
\* the run and cleared in the step that ends it, on every exit of the run.
C35_FlagIffRunning ==
    proc = "running" =>
        /\ rescueRunning <=> Cardinality(EngineRuns) = 1
        /\ lastEnded.kind = "rescue" => ~rescueRunning /\ EngineRuns = {}

\* a session has ended exhausted after its submissions failed and the gate
\* is open again
C35_Witness ==
    /\ lastEnded.kind = "rescue" /\ lastEnded.outcome = "exhausted" /\ lastEnded.subs >= 1
    /\ ~rescueRunning /\ EngineRuns = {} /\ proc = "running"

\* C36: under the self-heal policy at most one reconnect timer is pending and
\* at most one streaming provider is connecting or open at any time.
C36_OneReconnectOneProvider ==
    /\ ws.timers <= 1
    /\ Cardinality({s \in 1..Len(ws.socks) :
                      ws.socks[s].st \in {"connecting", "open"}}) <= 1

\* C38 as stated: whenever a connection opens, the reconnect attempt counter
\* is zero afterwards.
C38_ResetWhenOpen ==
    [][(\E s \in 1..Len(ws.socks) : WsOpen(s)) => ws'.attempts = 0]_vars

\* C38: the reconnect attempt counter is reset to zero where the draft holds
\* a connection to be established - in part_002 when the raw socket opens, in
\* part_004 when tryCreateWs has created the provider - and a reconnect
\* scheduled from a counter of zero waits the base delay of 2000 ms,
\* whatever delay an earlier outage reached.
C38_CounterReset ==
    [][/\ variant = "p2" /\ ws.raw /\ (\E s \in 1..Len(ws.socks) : WsOpen(s))
            => ws'.attempts = 0
       /\ variant = "p4" /\ (LoadWatcher(TRUE) \/ ReconnectTimer(TRUE))
            => ws'.attempts = 0
       /\ variant \in EventDelta /\ ws.attempts = 0 /\ ws'.consec = ws.consec + 1
            => ws'.lastDelay = 2000]_vars

\* part_002: a connection is open again after an outage whose reconnects had
\* reached a delay of 4000 ms, and the counter is zero
C38_Witness ==
    /\ variant = "p2" /\ ws.raw
    /\ ws.attempts = 0 /\ ws.lastDelay >= 4000 /\ ws.timers = 0
    /\ \E s \in 1..Len(ws.socks) : ws.socks[s].st = "open"

====
